---- MODULE Spec2Model ----
(***************************************************************************)
(* cri-lite: a policy-enforcing proxy in front of the CRI.  One listener   *)
(* with one policy serves unary calls: the policy's unary interceptor      *)
(* admits, rejects or rewrites the request, the Server handler forwards it *)
(* to the upstream runtime, and the interceptor may rewrite the response.  *)
(***************************************************************************)
EXTENDS Integers, Sequences, FiniteSets, TLC

VARIABLES
    policy,      \* Server.policy: the policy value fixed at listener startup
    peer,        \* the connection's peer / AuthInfo as seen by peer.FromContext
    containers,  \* the upstream runtime's containers, in the runtime's order
    calls,       \* per call: position, request, resolved sandbox, result
    stream,      \* the GetContainerEvents stream of the connection
    conn         \* the accepted socket: its kind, its handshake, its peer process

vars == <<policy, peer, containers, calls, stream, conn>>

------------------------------------------------------------------------------
(* Bounds of the model *)

\* containers the upstream runtime holds at one time
MaxContainers == 2
\* events the upstream runtime emits on one GetContainerEvents stream
MaxEvents == 2

------------------------------------------------------------------------------
(* Identifiers *)

Sandboxes == {"s1", "s2"}
\* container ids the runtime may use; "s1" is a container whose id is
\* spelled like sandbox s1's id
ContainerIds == {"c1", "c2", "s1"}
\* values a caller may put into an id field of a request
IdValues == {"", "s1", "s2", "c1", "c2"}

RuntimeService == "runtime.v1.RuntimeService"
ImageService == "runtime.v1.ImageService"
OtherService == "other.v1.Service"

\* info.FullMethod, "/<service>/<name>"
FullMethod(service, name) == [service |-> service, name |-> name]

\* strings.HasPrefix(info.FullMethod, "/<service>/")
HasServicePrefix(method, service) == method.service = service

\* RuntimeService requests that carry PodSandboxId
SandboxIdMethodNames ==
    {"CreateContainer", "StopPodSandbox", "RemovePodSandbox", "PodSandboxStatus",
     "UpdatePodSandboxResources", "PodSandboxStats", "PortForward"}
\* RuntimeService requests that carry ContainerId
ContainerIdMethodNames ==
    {"StartContainer", "StopContainer", "RemoveContainer", "ContainerStatus",
     "ExecSync", "Exec", "Attach", "ContainerStats", "UpdateContainerResources",
     "ReopenContainerLog", "CheckpointContainer"}
\* RuntimeService requests that carry a filter
ListMethodNames == {"ListContainers", "ListContainerStats", "ListPodSandboxStats"}
\* RuntimeService requests without a sandbox, container or modelled filter field
PlainRuntimeMethodNames ==
    {"Version", "Status", "ListPodSandbox", "RunPodSandbox", "UpdateRuntimeConfig",
     "RuntimeConfig", "ListMetricDescriptors", "ListPodSandboxMetrics"}
RuntimeMethodNames ==
    SandboxIdMethodNames \cup ContainerIdMethodNames \cup ListMethodNames
        \cup PlainRuntimeMethodNames
ImageMethodNames == {"ListImages", "ImageStatus", "ImageFsInfo", "PullImage", "RemoveImage"}

Methods ==
    {FullMethod(RuntimeService, n) : n \in RuntimeMethodNames}
        \cup {FullMethod(ImageService, n) : n \in ImageMethodNames}
        \cup {FullMethod(OtherService, "Foo")}

\* a request's filter: absent (nil) or present with its fields, "" when unset
NoFilter == [present |-> FALSE, id |-> "", podSandboxId |-> ""]
Filter(id, pod) == [present |-> TRUE, id |-> id, podSandboxId |-> pod]

Request(pod, cid, filter) == [podSandboxId |-> pod, containerId |-> cid, filter |-> filter]
EmptyRequest == Request("", "", NoFilter)

\* the decoded requests a caller can send for a method
Requests(method) ==
    IF method.service # RuntimeService THEN {EmptyRequest}
    ELSE IF method.name \in SandboxIdMethodNames
        THEN {Request(p, "", NoFilter) : p \in IdValues}
    ELSE IF method.name \in ContainerIdMethodNames
        THEN {Request("", c, NoFilter) : c \in IdValues}
    ELSE IF method.name \in {"ListContainers", "ListContainerStats"}
        THEN {Request("", "", NoFilter)}
                \cup {Request("", "", Filter(i, p)) : i \in {"", "c1"}, p \in IdValues}
    ELSE IF method.name = "ListPodSandboxStats"
        THEN {Request("", "", NoFilter)}
                \cup {Request("", "", Filter(i, "")) : i \in IdValues}
    ELSE {EmptyRequest}

------------------------------------------------------------------------------
(* gRPC status *)

ErrMethodNotAllowed == "method not allowed by policy"

OK == [code |-> "OK", msg |-> <<>>]
\* status.Errorf(code, ...): the message as the sequence of its parts
Status(code, msg) == [code |-> code, msg |-> msg]
IsOK(err) == err.code = "OK"
\* the message contains the text
Contains(err, text) == \E i \in DOMAIN err.msg : err.msg[i] = text

------------------------------------------------------------------------------
(* The upstream runtime, at its interface *)

Container(id, pod) == [id |-> id, pod |-> pod]

\* a container passes the ContainerFilter; the id field is always honoured,
\* the pod sandbox field only by a runtime that honours it
MatchesFilter(c, filter, honoursPod) ==
    /\ (filter.present /\ filter.id # "") => c.id = filter.id
    /\ (honoursPod /\ filter.present /\ filter.podSandboxId # "")
            => c.pod = filter.podSandboxId

\* runtimeClient.ListContainers(filter)
RuntimeListContainers(cs, filter, honoursPod) ==
    SelectSeq(cs, LAMBDA c : MatchesFilter(c, filter, honoursPod))

\* the sandboxes the runtime reports, in its order
RuntimeSandboxes == <<"s1", "s2">>

UpstreamUnavailable == Status("Unavailable", <<"upstream unavailable">>)

------------------------------------------------------------------------------
(* /proc/<pid>/cgroup of the peers *)

Text(t) == [hex64 |-> FALSE, text |-> t]
\* a run of 64 lowercase hexadecimal characters spelling a container id
Hex64(id) == [hex64 |-> TRUE, text |-> id]

Pids == {101, 102, 103, 104}

\* os.Open + the lines bufio.Scanner yields, each line as its pieces
procCgroup(pid) ==
    CASE pid = 101 -> [readable |-> TRUE,
                       lines |-> << <<Text("0::/kubepods/pod1/"), Hex64("c1"), Text(".scope")>> >>]
      [] pid = 102 -> [readable |-> TRUE, lines |-> << <<Text("0::/user.slice")>> >>]
      [] pid = 103 -> [readable |-> FALSE, lines |-> <<>>]
      [] OTHER     -> [readable |-> TRUE,
                       lines |-> << <<Text("1:name=systemd:/")>>,
                                    <<Text("0::/"), Hex64("c2"), Text("/"), Hex64("c1")>> >>]

\* regexp `([0-9a-f]{64})`.FindStringSubmatch(line): the leftmost match, or none
HasMatch(line) == \E i \in DOMAIN line : line[i].hex64
FindStringSubmatch(line) ==
    line[CHOOSE i \in DOMAIN line :
            line[i].hex64 /\ \A j \in DOMAIN line : line[j].hex64 => i <= j].text

\* peers of a connection: no peer in the context, AuthInfo without GetPID,
\* or the credentials captured at the handshake
NoPeer == [kind |-> "nopeer", pid |-> 0]
NoAuthInfo == [kind |-> "noauth", pid |-> 0]
PeerPid(pid) == [kind |-> "ucred", pid |-> pid]
\* the handshake of a connection that is not a *net.UnixConn: getUcred returns
\* nil, nil and the AuthInfo is &ucredAuthInfo{ucred: nil}
NilUcred == [kind |-> "nilucred", pid |-> 0]
Peers == {NoPeer, NoAuthInfo, NilUcred} \cup {PeerPid(p) : p \in Pids}

------------------------------------------------------------------------------
(* Errors *)

\* a plain Go error; the gRPC server reports it with code Unknown
GoError(msg) == Status("Unknown", msg)
\* faulty variant: fmt.Errorf("<prefix>: %v", err), a new error without the status
Wrap_asNewError(prefix, err) == [code |-> "Unknown", msg |-> <<prefix>> \o err.msg]

\* fmt.Errorf("<prefix>: %w", err): the status code of a wrapped status is kept
Wrap(prefix, err) == [code |-> err.code, msg |-> <<prefix>> \o err.msg]

------------------------------------------------------------------------------
(* The connection and its credentials *)

\* a socket the listener accepted: whether it is a *net.UnixConn, the pid
\* SO_PEERCRED answers now, and the pid it answered at the handshake
Conn(state, unix, peerPid, handshakePid) ==
    [state |-> state, unix |-> unix, peerPid |-> peerPid, handshakePid |-> handshakePid]

\* a connection whose handshake gave the AuthInfo p
ReadyConn(p) == Conn("ready", p.kind # "nilucred", p.pid, p.pid)

\* getUcred: nil for a connection that is not a *net.UnixConn, else SO_PEERCRED
getUcred(c, sysFails) ==
    IF ~c.unix THEN [err |-> OK, ucred |-> NilUcred]
    ELSE IF sysFails
        THEN [err |-> GoError(<<"getsockopt">>), ucred |-> NilUcred]
    ELSE [err |-> OK, ucred |-> PeerPid(c.peerPid)]

\* PIDCreds.ServerHandshake: the AuthInfo of the connection, or an error
ServerHandshake(c, sysFails) ==
    LET u == getUcred(c, sysFails)
    IN  IF ~IsOK(u.err) THEN [err |-> u.err, authInfo |-> NoAuthInfo]
        ELSE [err |-> OK, authInfo |-> u.ucred]

\* faulty variant: the peer's pid is asked of the socket at every call
GetPID_requery(authInfo) == conn.peerPid

\* ucredAuthInfo.GetPID: the pid stored at the handshake
GetPID(authInfo) == authInfo.pid

------------------------------------------------------------------------------
(* Policy errors *)

MethodNotAllowed(method) ==
    Status("PermissionDenied", <<ErrMethodNotAllowed, method.name>>)

------------------------------------------------------------------------------
(* ReadOnly and ImageManagement *)

\* faulty variant: the allowlist without the stats and Status methods
readOnlyAllowedMethods_noStats ==
    {FullMethod(RuntimeService, n) :
        n \in {"Version", "ListContainers", "ContainerStatus", "ListPodSandbox",
               "PodSandboxStatus"}}
    \cup {FullMethod(ImageService, n) : n \in {"ListImages", "ImageStatus", "ImageFsInfo"}}

readOnlyAllowedMethods ==
    {FullMethod(RuntimeService, n) :
        n \in {"Version", "Status", "ListContainers", "ContainerStatus",
               "ListPodSandbox", "PodSandboxStatus", "ContainerStats",
               "ListContainerStats", "PodSandboxStats", "ListPodSandboxStats"}}
    \cup {FullMethod(ImageService, n) : n \in {"ListImages", "ImageStatus", "ImageFsInfo"}}

\* readOnlyPolicy.UnaryInterceptor up to the call of handler: OK admits
readOnlyPolicyAdmission(method) ==
    IF method \notin readOnlyAllowedMethods THEN MethodNotAllowed(method) ELSE OK

\* faulty variant: no pass-through for RuntimeService/Version
imageManagementPolicyAdmission_noVersion(method) ==
    IF ~HasServicePrefix(method, ImageService) THEN MethodNotAllowed(method) ELSE OK

\* imageManagementPolicy.UnaryInterceptor up to the call of handler
imageManagementPolicyAdmission(method) ==
    IF method = FullMethod(RuntimeService, "Version") THEN OK
    ELSE IF ~HasServicePrefix(method, ImageService) THEN MethodNotAllowed(method)
    ELSE OK

------------------------------------------------------------------------------
(* PodScoped: sandbox resolution and request verification *)

\* faulty variant: the first container is taken when several match
getPodSandboxIDFromContainerID_firstOfMany(containerID, cs, upFails) ==
    LET resp == RuntimeListContainers(cs, Filter(containerID, ""), TRUE)
    IN  IF upFails
            THEN [err |-> Wrap("failed to list containers", UpstreamUnavailable), id |-> ""]
        ELSE IF Len(resp) = 0
            THEN [err |-> GoError(<<"unexpected number of containers">>), id |-> ""]
        ELSE [err |-> OK, id |-> resp[1].pod]

getPodSandboxIDFromContainerID(containerID, cs, upFails) ==
    LET resp == RuntimeListContainers(cs, Filter(containerID, ""), TRUE)
    IN  IF upFails
            THEN [err |-> Wrap("failed to list containers", UpstreamUnavailable), id |-> ""]
        ELSE IF Len(resp) # 1
            THEN [err |-> GoError(<<"unexpected number of containers">>), id |-> ""]
        ELSE [err |-> OK, id |-> resp[1].pod]

getPodSandboxIDFromPID(pid, cs, upFails) ==
    LET file == procCgroup(pid)
        matching == {i \in DOMAIN file.lines : HasMatch(file.lines[i])}
        first == CHOOSE i \in matching : \A j \in matching : i <= j
    IN  IF ~file.readable
            THEN [err |-> GoError(<<"failed to open cgroup file">>), id |-> ""]
        ELSE IF matching # {}
            THEN getPodSandboxIDFromContainerID(
                    FindStringSubmatch(file.lines[first]), cs, upFails)
        ELSE [err |-> GoError(<<"failed to find container ID for pid">>), id |-> ""]

\* faulty variant: a failed lookup lets the request pass
verifyContainerPodSandboxID_failOpen(containerID, expectedPodSandboxID, cs, upFails) ==
    LET r == getPodSandboxIDFromContainerID(containerID, cs, upFails)
    IN  IF IsOK(r.err) /\ r.id # expectedPodSandboxID
            THEN Status("PermissionDenied",
                        <<ErrMethodNotAllowed, "container does not belong to pod sandbox">>)
        ELSE OK

verifyContainerPodSandboxID(containerID, expectedPodSandboxID, cs, upFails) ==
    LET r == getPodSandboxIDFromContainerID(containerID, cs, upFails)
    IN  IF ~IsOK(r.err)
            THEN Wrap("failed to get pod sandbox ID from container ID", r.err)
        ELSE IF r.id # expectedPodSandboxID
            THEN Status("PermissionDenied",
                        <<ErrMethodNotAllowed, "container does not belong to pod sandbox">>)
        ELSE OK

\* faulty variant: an empty requested id passes
verifyPodSandboxIDMatch_emptyPasses(requestedPodSandboxID, expectedPodSandboxID, methodName) ==
    IF requestedPodSandboxID # "" /\ requestedPodSandboxID # expectedPodSandboxID
        THEN Status("PermissionDenied", <<ErrMethodNotAllowed, methodName, "does not match">>)
    ELSE OK

verifyPodSandboxIDMatch(requestedPodSandboxID, expectedPodSandboxID, methodName) ==
    IF requestedPodSandboxID # expectedPodSandboxID
        THEN Status("PermissionDenied", <<ErrMethodNotAllowed, methodName, "does not match">>)
    ELSE OK

verifyContainerIDBelongsToPod(containerID, expectedPodSandboxID, cs, upFails) ==
    LET err == verifyContainerPodSandboxID(containerID, expectedPodSandboxID, cs, upFails)
    IN  IF ~IsOK(err)
            THEN Status("PermissionDenied", <<ErrMethodNotAllowed>> \o err.msg)
        ELSE OK

\* the three list verifiers return the error and the request as they leave it
verifyListContainersRequest(r, podSandboxID) ==
    IF ~r.filter.present
        THEN [err |-> OK, req |-> [r EXCEPT !.filter = Filter("", podSandboxID)]]
    ELSE IF r.filter.podSandboxId # "" /\ r.filter.podSandboxId # podSandboxID
        THEN [err |-> Status("PermissionDenied",
                    <<ErrMethodNotAllowed, "ListContainersRequest.Filter.PodSandboxId does not match">>),
              req |-> r]
    ELSE [err |-> OK, req |-> [r EXCEPT !.filter.podSandboxId = podSandboxID]]

verifyListContainerStatsRequest(r, podSandboxID) ==
    IF ~r.filter.present
        THEN [err |-> OK, req |-> [r EXCEPT !.filter = Filter("", podSandboxID)]]
    ELSE IF r.filter.podSandboxId # "" /\ r.filter.podSandboxId # podSandboxID
        THEN [err |-> Status("PermissionDenied",
                    <<ErrMethodNotAllowed, "ListContainerStatsRequest.Filter.PodSandboxId does not match">>),
              req |-> r]
    ELSE [err |-> OK, req |-> [r EXCEPT !.filter.podSandboxId = podSandboxID]]

\* faulty variant: a present filter is checked but not tightened
verifyListPodSandboxStatsRequest_noTighten(r, podSandboxID) ==
    IF ~r.filter.present
        THEN [err |-> OK, req |-> [r EXCEPT !.filter = Filter(podSandboxID, "")]]
    ELSE IF r.filter.id # "" /\ r.filter.id # podSandboxID
        THEN [err |-> Status("PermissionDenied",
                    <<ErrMethodNotAllowed, "ListPodSandboxStatsRequest.Filter.Id does not match">>),
              req |-> r]
    ELSE [err |-> OK, req |-> r]

verifyListPodSandboxStatsRequest(r, podSandboxID) ==
    IF ~r.filter.present
        THEN [err |-> OK, req |-> [r EXCEPT !.filter = Filter(podSandboxID, "")]]
    ELSE IF r.filter.id # "" /\ r.filter.id # podSandboxID
        THEN [err |-> Status("PermissionDenied",
                    <<ErrMethodNotAllowed, "ListPodSandboxStatsRequest.Filter.Id does not match">>),
              req |-> r]
    ELSE [err |-> OK, req |-> [r EXCEPT !.filter.id = podSandboxID]]

\* requests verifyRequest checks with verifyPodSandboxIDMatch
PodSandboxIDMatchRequests ==
    {"CreateContainer", "StopPodSandbox", "RemovePodSandbox", "PodSandboxStatus",
     "UpdatePodSandboxResources"}
\* requests verifyRequest checks with verifyContainerIDBelongsToPod on ContainerId
ContainerIDBelongsRequests ==
    {"StartContainer", "StopContainer", "RemoveContainer", "ContainerStatus",
     "ExecSync", "Attach", "UpdateContainerResources", "ContainerStats"}

\* the type switch of verifyRequest; the request type is the method's
verifyRequest(method, req, podSandboxID, cs, upFails) ==
    LET name == method.name
    IN  IF name = "ListContainers" THEN verifyListContainersRequest(req, podSandboxID)
        ELSE IF name = "ListContainerStats"
            THEN verifyListContainerStatsRequest(req, podSandboxID)
        ELSE IF name = "ListPodSandboxStats"
            THEN verifyListPodSandboxStatsRequest(req, podSandboxID)
        ELSE IF name \in PodSandboxIDMatchRequests
            THEN [err |-> verifyPodSandboxIDMatch(req.podSandboxId, podSandboxID, name),
                  req |-> req]
        ELSE IF name \in ContainerIDBelongsRequests
            THEN [err |-> verifyContainerIDBelongsToPod(req.containerId, podSandboxID, cs, upFails),
                  req |-> req]
        ELSE IF name = "PortForward"
            THEN [err |-> verifyContainerIDBelongsToPod(req.podSandboxId, podSandboxID, cs, upFails),
                  req |-> req]
        ELSE [err |-> OK, req |-> req]

------------------------------------------------------------------------------
(* The Server's handlers *)

Response(kind, items) == [kind |-> kind, items |-> items]
NoResponse == Response("nil", <<>>)

SandboxItem(id) == [id |-> id, pod |-> id]

\* what the upstream answers to a forwarded request: the response or a status
Upstream(method, req, cs, honoursPod) ==
    LET name == method.name
        withId == SelectSeq(cs, LAMBDA c : c.id = req.containerId)
        sandboxes == [i \in DOMAIN RuntimeSandboxes |-> SandboxItem(RuntimeSandboxes[i])]
        NotFound == Status("NotFound", <<"not found">>)
    IN  IF method.service # RuntimeService
            THEN [resp |-> Response(name, <<>>), err |-> OK]
        ELSE IF name \in {"ListContainers", "ListContainerStats"}
            THEN [resp |-> Response(name, RuntimeListContainers(cs, req.filter, honoursPod)),
                  err |-> OK]
        ELSE IF name = "ListPodSandboxStats"
            THEN [resp |-> Response(name,
                        SelectSeq(sandboxes, LAMBDA s :
                            (honoursPod /\ req.filter.present /\ req.filter.id # "")
                                => s.id = req.filter.id)),
                  err |-> OK]
        ELSE IF name = "ListPodSandbox"
            THEN [resp |-> Response(name, sandboxes), err |-> OK]
        ELSE IF name \in ContainerIdMethodNames
            THEN IF Len(withId) = 0 THEN [resp |-> NoResponse, err |-> NotFound]
                 ELSE [resp |-> Response(name, <<withId[1]>>), err |-> OK]
        ELSE IF name \in SandboxIdMethodNames
            THEN IF req.podSandboxId \notin Sandboxes
                    THEN [resp |-> NoResponse, err |-> NotFound]
                 ELSE [resp |-> Response(name, <<SandboxItem(req.podSandboxId)>>), err |-> OK]
        ELSE [resp |-> Response(name, <<>>), err |-> OK]

\* the sandboxes of the runtime's containers with the id, when a call is forwarded
Owners(id, cs) == {cs[i].pod : i \in {j \in DOMAIN cs : cs[j].id = id}}

\* faulty variant: RunPodSandbox proxied like every other method
RunPodSandbox_proxied == [forward |-> TRUE, err |-> OK]

\* Server.RunPodSandbox: never calls the runtime client
RunPodSandbox ==
    [forward |-> FALSE,
     err |-> GoError(<<"RunPodSandbox is disabled by cri-lite for security reasons">>)]

\* methods the Server leaves to the embedded Unimplemented*Server
UnimplementedMethods ==
    {FullMethod(RuntimeService, "CheckpointContainer"), FullMethod(OtherService, "Foo")}

\* the handler of a method: whether it calls the upstream client, else its error
Handler(method) ==
    IF method = FullMethod(RuntimeService, "RunPodSandbox") THEN RunPodSandbox
    ELSE IF method \in UnimplementedMethods
        THEN [forward |-> FALSE, err |-> Status("Unimplemented", <<"method not implemented">>)]
    ELSE [forward |-> TRUE, err |-> OK]

------------------------------------------------------------------------------
(* PodScoped: response rewriting *)

\* faulty variant: the response is returned as the runtime gave it
filterResponse_keepsAll(resp, podSandboxID) == resp

\* faulty variant: the filter loop starts at the second kept container
filterResponse_dropsFirst(resp, podSandboxID) ==
    LET kept == SelectSeq(resp.items, LAMBDA c : c.pod = podSandboxID)
    IN  IF resp.kind = "ListContainers" /\ Len(kept) > 0
            THEN [resp EXCEPT !.items = Tail(kept)]
        ELSE resp

\* the ListContainersResponse filter at the end of podScopedPolicy's interceptor
filterResponse(resp, podSandboxID) ==
    IF resp.kind = "ListContainers"
        THEN [resp EXCEPT !.items = SelectSeq(resp.items, LAMBDA c : c.pod = podSandboxID)]
    ELSE resp

------------------------------------------------------------------------------
(* State *)

ReadOnly == [kind |-> "readonly", podSandboxID |-> "", podSandboxFromCallerPID |-> FALSE]
ImageManagement ==
    [kind |-> "imageManagement", podSandboxID |-> "", podSandboxFromCallerPID |-> FALSE]
\* Server.policy == nil
NoPolicy == [kind |-> "none", podSandboxID |-> "", podSandboxFromCallerPID |-> FALSE]
NewPodScopedPolicy(podSandboxID, podSandboxFromCallerPID) ==
    [kind |-> "podScoped", podSandboxID |-> podSandboxID,
     podSandboxFromCallerPID |-> podSandboxFromCallerPID]

Policies ==
    {NoPolicy, ReadOnly, ImageManagement}
        \cup {NewPodScopedPolicy(s, FALSE) : s \in Sandboxes \cup {""}}
        \cup {NewPodScopedPolicy("s2", TRUE)}

Calls == {"call"}

NoLookup == [done |-> FALSE, n |-> 0, id |-> "", pod |-> ""]
\* what the runtime answered to a container lookup: count and first container
LookupOf(id, cs) ==
    LET resp == RuntimeListContainers(cs, Filter(id, ""), TRUE)
    IN  IF Len(resp) = 0 THEN [done |-> TRUE, n |-> 0, id |-> "", pod |-> ""]
        ELSE [done |-> TRUE, n |-> Len(resp), id |-> resp[1].id, pod |-> resp[1].pod]

Idle ==
    [pc |-> "idle", method |-> FullMethod("", ""), orig |-> EmptyRequest,
     req |-> EmptyRequest, sandbox |-> "", resolved |-> FALSE, lookup |-> NoLookup,
     fwd |-> <<>>, hresp |-> NoResponse, herr |-> OK, resp |-> NoResponse, err |-> OK,
     uerr |-> OK, steps |-> <<>>, pid |-> <<>>]

GetContainerEventsMethod == FullMethod(RuntimeService, "GetContainerEvents")

\* container ids the runtime's events name; "c3" is a container the runtime no
\* longer lists
EventContainerIds == {"c1", "c2", "c3"}

\* no GetContainerEvents call in progress; got holds the upstream events
\* received so far, each with the sandboxes that owned its container then
StreamIdle ==
    [pc |-> "idle", sandbox |-> "", resolved |-> FALSE, opened |-> 0, got |-> <<>>,
     upEnd |-> "none", delivered |-> <<>>, err |-> OK]

Init ==
    /\ policy \in Policies
    /\ peer \in (IF policy.podSandboxFromCallerPID THEN Peers ELSE {PeerPid(101)})
    /\ containers = <<Container("c1", "s1"), Container("c2", "s2")>>
    /\ calls = [c \in Calls |-> Idle]
    /\ stream = StreamIdle
    /\ conn = ReadyConn(peer)


------------------------------------------------------------------------------
(* Actions *)

Set(c, call) == calls' = [calls EXCEPT ![c] = call]

\* the call's history gains a step: "admit", "reject", "resolve", "forward"
\* (the handler is invoked), "rewrite", "return" or "panic"
Step(call, name) == [call EXCEPT !.steps = Append(@, name)]

Reject(call, err) == [call EXCEPT !.pc = "done", !.resp = NoResponse, !.err = err]

\* a caller sends a unary request on the connection
Receive(c) ==
    /\ conn.state = "ready"
    /\ calls[c].pc = "idle"
    /\ \E method \in Methods : \E req \in Requests(method) :
          Set(c, [Idle EXCEPT !.pc = "intercept", !.method = method,
                              !.orig = req, !.req = req])
    /\ UNCHANGED <<policy, peer, containers, stream, conn>>

\* Server.Start with policy == nil: no interceptor, the handler runs directly
InterceptNone(c) ==
    /\ calls[c].pc = "intercept"
    /\ policy.kind = "none"
    /\ Set(c, [calls[c] EXCEPT !.pc = "handler"])
    /\ UNCHANGED <<policy, peer, containers, stream, conn>>

\* readOnlyPolicy.UnaryInterceptor
InterceptReadOnly(c) ==
    /\ calls[c].pc = "intercept"
    /\ policy.kind = "readonly"
    /\ LET err == readOnlyPolicyAdmission(calls[c].method)
       IN  Set(c, IF IsOK(err) THEN Step([calls[c] EXCEPT !.pc = "handler"], "admit")
                  ELSE Step(Reject(calls[c], err), "reject"))
    /\ UNCHANGED <<policy, peer, containers, stream, conn>>

\* imageManagementPolicy.UnaryInterceptor
InterceptImageManagement(c) ==
    /\ calls[c].pc = "intercept"
    /\ policy.kind = "imageManagement"
    /\ LET err == imageManagementPolicyAdmission(calls[c].method)
       IN  Set(c, IF IsOK(err) THEN Step([calls[c] EXCEPT !.pc = "handler"], "admit")
                  ELSE Step(Reject(calls[c], err), "reject"))
    /\ UNCHANGED <<policy, peer, containers, stream, conn>>

\* faulty variant: a configured sandbox id is used even in dynamic mode
podScopedAdmission_staticFirst(method, pol, p, cs, upFails) ==
    IF HasServicePrefix(method, ImageService)
        THEN [next |-> "handler", err |-> OK, id |-> ""]
    ELSE IF ~HasServicePrefix(method, RuntimeService)
        THEN [next |-> "done", err |-> MethodNotAllowed(method), id |-> ""]
    ELSE IF ~pol.podSandboxFromCallerPID \/ pol.podSandboxID # ""
        THEN [next |-> "verify", err |-> OK, id |-> pol.podSandboxID]
    ELSE LET r == getPodSandboxIDFromPID(p.pid, cs, upFails)
         IN  IF ~IsOK(r.err)
                THEN [next |-> "done",
                      err |-> Status("Internal",
                                <<"failed to get pod sandbox ID from PID">> \o r.err.msg),
                      id |-> ""]
             ELSE [next |-> "verify", err |-> OK, id |-> r.id]

\* podScopedPolicy.UnaryInterceptor up to the resolution of podSandboxID
podScopedAdmission(method, pol, p, cs, upFails) ==
    IF HasServicePrefix(method, ImageService)
        THEN [next |-> "handler", err |-> OK, id |-> ""]
    ELSE IF ~HasServicePrefix(method, RuntimeService)
        THEN [next |-> "done", err |-> MethodNotAllowed(method), id |-> ""]
    ELSE IF ~pol.podSandboxFromCallerPID
        THEN [next |-> "verify", err |-> OK, id |-> pol.podSandboxID]
    ELSE IF p.kind = "nopeer"
        THEN [next |-> "done",
              err |-> Status("InvalidArgument", <<"failed to get peer from context">>),
              id |-> ""]
    ELSE IF p.kind = "noauth"
        THEN [next |-> "done",
              err |-> Status("InvalidArgument", <<"failed to get auth info from context">>),
              id |-> ""]
    ELSE IF p.kind = "nilucred"
        \* authInfo.GetPID() reads ai.ucred.pid of a nil ucred: the goroutine
        \* panics and, nothing recovering it, the process ends
        THEN [next |-> "panic", err |-> OK, id |-> ""]
    ELSE LET r == getPodSandboxIDFromPID(GetPID(p), cs, upFails)
         IN  IF ~IsOK(r.err)
                THEN [next |-> "done",
                      err |-> Status("Internal",
                                <<"failed to get pod sandbox ID from PID">> \o r.err.msg),
                      id |-> ""]
             ELSE [next |-> "verify", err |-> OK, id |-> r.id]

\* the pid the interceptor hands to getPodSandboxIDFromPID, if it gets there
resolverPid(method, pol, p) ==
    IF /\ HasServicePrefix(method, RuntimeService)
       /\ pol.podSandboxFromCallerPID
       /\ p.kind = "ucred"
        THEN <<GetPID(p)>>
    ELSE <<>>

InterceptPodScoped(c) ==
    /\ calls[c].pc = "intercept"
    /\ policy.kind = "podScoped"
    /\ \E upFails \in BOOLEAN :
          LET a == podScopedAdmission(calls[c].method, policy, peer, containers, upFails)
              call == [calls[c] EXCEPT !.pid = resolverPid(calls[c].method, policy, peer)]
          IN  Set(c, IF a.next = "done" THEN Step(Reject(call, a.err), "reject")
                     ELSE IF a.next = "panic"
                        THEN Step([call EXCEPT !.pc = "panic"], "panic")
                     ELSE IF a.next = "handler"
                        THEN Step([call EXCEPT !.pc = "handler"], "admit")
                     ELSE Step([call EXCEPT !.pc = "verify", !.sandbox = a.id,
                                            !.resolved = TRUE], "resolve"))
    /\ UNCHANGED <<policy, peer, containers, stream, conn>>

\* the id verifyRequest looks up in the runtime, if it looks one up
LookedUp(method, req) ==
    IF method.name \in ContainerIDBelongsRequests THEN <<req.containerId>>
    ELSE IF method.name = "PortForward" THEN <<req.podSandboxId>>
    ELSE <<>>

\* faulty variant: the tightened request lives in a buffer every in-flight
\* call shares
VerifyPodScoped_sharedRequest(c) ==
    /\ calls[c].pc = "verify"
    /\ \E upFails \in BOOLEAN :
          LET call == calls[c]
              v == verifyRequest(call.method, call.req, call.sandbox, containers, upFails)
          IN  calls' = [d \in DOMAIN calls |->
                  IF d = c
                      THEN IF ~IsOK(v.err) THEN Step(Reject(call, v.err), "reject")
                           ELSE Step([call EXCEPT !.pc = "handler", !.req = v.req], "admit")
                  ELSE IF calls[d].pc = "idle" THEN calls[d]
                  ELSE [calls[d] EXCEPT !.req = v.req]]
    /\ UNCHANGED <<policy, peer, containers, stream, conn>>

\* podScopedPolicy.UnaryInterceptor: verifyRequest with the resolved sandbox
VerifyPodScoped(c) ==
    /\ calls[c].pc = "verify"
    /\ \E upFails \in BOOLEAN :
          LET call == calls[c]
              v == verifyRequest(call.method, call.req, call.sandbox, containers, upFails)
              ids == LookedUp(call.method, call.req)
              seen == IF ids = <<>> \/ upFails THEN NoLookup
                      ELSE LookupOf(ids[1], containers)
          IN  Set(c, IF ~IsOK(v.err)
                        THEN Step([Reject(call, v.err) EXCEPT !.lookup = seen], "reject")
                     ELSE Step([call EXCEPT !.pc = "handler", !.req = v.req,
                                            !.lookup = seen], "admit"))
    /\ UNCHANGED <<policy, peer, containers, stream, conn>>

\* faulty variant: a failed upstream call is tried again
Handle_retry(c) ==
    /\ calls[c].pc = "handler"
    /\ Len(calls[c].fwd) < 2
    /\ LET call == calls[c]
           sent == Append(call.fwd, [method |-> call.method, req |-> call.req,
                                     owner |-> Owners(call.req.containerId, containers)])
       IN  \/ Set(c, Step([call EXCEPT !.fwd = sent], "forward"))
           \/ Set(c, Step([call EXCEPT !.pc = "respond", !.fwd = sent,
                                       !.hresp = Response(call.method.name, <<>>)],
                          "forward"))
    /\ UNCHANGED <<policy, peer, containers, stream, conn>>

\* the Server's handler, reached through loggingInterceptor under PodScoped
Handle(c) ==
    /\ calls[c].pc = "handler"
    /\ LET call == Step(calls[c], "forward")
           h == Handler(call.method)
       IN  IF ~h.forward
              THEN Set(c, [call EXCEPT !.pc = "respond", !.herr = h.err])
           ELSE \E upFails \in BOOLEAN, honoursPod \in BOOLEAN :
                  LET u == Upstream(call.method, call.req, containers, honoursPod)
                      sent == Append(call.fwd, [method |-> call.method, req |-> call.req,
                                                owner |-> Owners(call.req.containerId, containers)])
                  IN  Set(c, IF upFails
                                THEN [call EXCEPT !.pc = "respond", !.fwd = sent,
                                        !.uerr = UpstreamUnavailable,
                                        !.herr = Wrap("failed to proxy call", UpstreamUnavailable)]
                             ELSE IF ~IsOK(u.err)
                                THEN [call EXCEPT !.pc = "respond", !.fwd = sent,
                                        !.uerr = u.err,
                                        !.herr = Wrap("failed to proxy call", u.err)]
                             ELSE [call EXCEPT !.pc = "respond", !.fwd = sent,
                                        !.hresp = u.resp])
    /\ UNCHANGED <<policy, peer, containers, stream, conn>>

\* the interceptor returns to the caller; PodScoped rewrites the response of a
\* RuntimeService call first
Respond(c) ==
    /\ calls[c].pc = "respond"
    /\ LET call == calls[c]
       IN  Set(c, IF ~IsOK(call.herr) THEN Step(Reject(call, call.herr), "return")
                  ELSE IF policy.kind = "podScoped" /\ call.resolved
                     THEN Step(Step([call EXCEPT !.pc = "done",
                                        !.resp = filterResponse(call.hresp, call.sandbox)],
                                    "rewrite"), "return")
                  ELSE Step([call EXCEPT !.pc = "done", !.resp = call.hresp], "return"))
    /\ UNCHANGED <<policy, peer, containers, stream, conn>>

\* the call is over; its context is released
Complete(c) ==
    /\ calls[c].pc = "done"
    /\ Set(c, Idle)
    /\ UNCHANGED <<policy, peer, containers, stream, conn>>

\* the runtime gains a container (by any client of the runtime)
RuntimeCreateContainer ==
    /\ Len(containers) < MaxContainers
    /\ \E id \in ContainerIds, pod \in Sandboxes :
          /\ \A i \in DOMAIN containers : containers[i].id # id
          /\ containers' = Append(containers, Container(id, pod))
    /\ UNCHANGED <<policy, peer, calls, stream, conn>>

\* the runtime loses a container
RuntimeRemoveContainer ==
    /\ \E i \in DOMAIN containers :
          containers' = [j \in 1..(Len(containers) - 1) |->
                            IF j < i THEN containers[j] ELSE containers[j + 1]]
    /\ UNCHANGED <<policy, peer, calls, stream, conn>>

Next ==
    \/ \E c \in DOMAIN calls : Receive(c)
    \/ \E c \in DOMAIN calls : InterceptNone(c)
    \/ \E c \in DOMAIN calls : InterceptReadOnly(c)
    \/ \E c \in DOMAIN calls : InterceptImageManagement(c)
    \/ \E c \in DOMAIN calls : InterceptPodScoped(c)
    \/ \E c \in DOMAIN calls : VerifyPodScoped(c)
    \/ \E c \in DOMAIN calls : Handle(c)
    \/ \E c \in DOMAIN calls : Respond(c)
    \/ \E c \in DOMAIN calls : Complete(c)
    \/ RuntimeCreateContainer
    \/ RuntimeRemoveContainer

Spec == Init /\ [][Next]_vars

------------------------------------------------------------------------------
(* The server-streaming method GetContainerEvents *)

\* faulty variant: only the unary interceptor is installed
StreamInterceptorInstalled_unaryOnly(pol) == FALSE

\* Server.Start: the policy's stream interceptor is installed iff a policy is set
StreamInterceptorInstalled(pol) == pol.kind # "none"

\* imageManagementPolicy.StreamInterceptor up to the call of handler: the
\* admission rule of the unary interceptor, applied to the stream's method
imageManagementPolicyStreamAdmission(method) == imageManagementPolicyAdmission(method)

\* readOnlyPolicy.StreamInterceptor up to the call of handler: the allowlist
\* of 4.3 does not name GetContainerEvents while the repository's proxy test
\* receives events through ReadOnly, so either outcome is possible
readOnlyPolicyStreamAdmission(method, admits) ==
    IF admits THEN OK ELSE readOnlyPolicyAdmission(method)

\* podScopedPolicy.StreamInterceptor up to the call of handler: the prefix
\* checks and the sandbox resolution of the unary interceptor
podScopedStreamAdmission(method, pol, p, cs, upFails) ==
    podScopedAdmission(method, pol, p, cs, upFails)

\* podScopedPolicy.StreamInterceptor's wrapped stream: an event is sent on to
\* the caller iff the runtime lists its container in the sandbox
podScopedStreamSend(containerID, podSandboxID, cs) ==
    Owners(containerID, cs) = {podSandboxID}

\* Server.GetContainerEvents: runtimeClient.GetContainerEvents opens the stream
GetContainerEventsOpen(openFails) ==
    IF openFails THEN Wrap("failed to get container events", UpstreamUnavailable)
    ELSE OK

\* what clientStream.Recv() yields
RecvEvent(containerID) == [kind |-> "event", id |-> containerID]
RecvEOF == [kind |-> "eof", id |-> ""]
RecvError == [kind |-> "error", id |-> ""]

\* faulty variant: every Recv error ends the loop as end-of-stream does
GetContainerEventsRecv_errorAsEOF(r, sendFails) ==
    IF r.kind \in {"eof", "error"} THEN [next |-> "done", send |-> <<>>, err |-> OK]
    ELSE IF sendFails
        THEN [next |-> "done", send |-> <<r.id>>,
              err |-> Wrap("failed to send container event",
                           Status("Canceled", <<"transport is closing">>))]
    ELSE [next |-> "recv", send |-> <<r.id>>, err |-> OK]

\* faulty variant: the loop ends after the first event
GetContainerEventsRecv_once(r, sendFails) ==
    IF r.kind = "event" /\ ~sendFails
        THEN [next |-> "done", send |-> <<r.id>>, err |-> OK]
    ELSE [next |-> "done", send |-> <<>>, err |-> OK]

\* Server.GetContainerEvents: one turn of the receive loop
GetContainerEventsRecv(r, sendFails) ==
    IF r.kind = "eof" THEN [next |-> "done", send |-> <<>>, err |-> OK]
    ELSE IF r.kind = "error"
        THEN [next |-> "done", send |-> <<>>,
              err |-> Wrap("failed to receive container event", UpstreamUnavailable)]
    ELSE IF sendFails
        THEN [next |-> "done", send |-> <<r.id>>,
              err |-> Wrap("failed to send container event",
                           Status("Canceled", <<"transport is closing">>))]
    ELSE [next |-> "recv", send |-> <<r.id>>, err |-> OK]

SetStream(st) == stream' = st

StreamReject(err) == [stream EXCEPT !.pc = "done", !.err = err]

\* a caller opens GetContainerEvents on the connection
StreamCall ==
    /\ stream.pc = "idle"
    /\ SetStream([StreamIdle EXCEPT !.pc = "intercept"])
    /\ UNCHANGED <<policy, peer, containers, calls, conn>>

\* no stream interceptor: the handler runs directly
StreamInterceptNone ==
    /\ stream.pc = "intercept"
    /\ ~StreamInterceptorInstalled(policy)
    /\ SetStream([stream EXCEPT !.pc = "open"])
    /\ UNCHANGED <<policy, peer, containers, calls, conn>>

StreamInterceptImageManagement ==
    /\ stream.pc = "intercept"
    /\ StreamInterceptorInstalled(policy)
    /\ policy.kind = "imageManagement"
    /\ LET err == imageManagementPolicyStreamAdmission(GetContainerEventsMethod)
       IN  SetStream(IF IsOK(err) THEN [stream EXCEPT !.pc = "open"]
                     ELSE StreamReject(err))
    /\ UNCHANGED <<policy, peer, containers, calls, conn>>

StreamInterceptReadOnly ==
    /\ stream.pc = "intercept"
    /\ StreamInterceptorInstalled(policy)
    /\ policy.kind = "readonly"
    /\ \E admits \in BOOLEAN :
          LET err == readOnlyPolicyStreamAdmission(GetContainerEventsMethod, admits)
          IN  SetStream(IF IsOK(err) THEN [stream EXCEPT !.pc = "open"]
                        ELSE StreamReject(err))
    /\ UNCHANGED <<policy, peer, containers, calls, conn>>

StreamInterceptPodScoped ==
    /\ stream.pc = "intercept"
    /\ StreamInterceptorInstalled(policy)
    /\ policy.kind = "podScoped"
    /\ \E upFails \in BOOLEAN :
          LET a == podScopedStreamAdmission(GetContainerEventsMethod, policy, peer,
                                            containers, upFails)
          IN  SetStream(IF a.next = "done" THEN StreamReject(a.err)
                        ELSE IF a.next = "panic" THEN [stream EXCEPT !.pc = "panic"]
                        ELSE [stream EXCEPT !.pc = "open", !.sandbox = a.id,
                                            !.resolved = TRUE])
    /\ UNCHANGED <<policy, peer, containers, calls, conn>>

\* Server.GetContainerEvents opens the upstream stream
StreamOpen ==
    /\ stream.pc = "open"
    /\ \E openFails \in BOOLEAN :
          LET err == GetContainerEventsOpen(openFails)
              st == [stream EXCEPT !.opened = @ + 1]
          IN  SetStream(IF IsOK(err) THEN [st EXCEPT !.pc = "recv"]
                        ELSE [st EXCEPT !.pc = "done", !.err = err])
    /\ UNCHANGED <<policy, peer, containers, calls, conn>>

\* Server.GetContainerEvents receives from the upstream stream and sends to
\* the caller's stream, which PodScoped has wrapped
StreamRecv ==
    /\ stream.pc = "recv"
    /\ \E r \in {RecvEvent(id) : id \in EventContainerIds} \cup {RecvEOF, RecvError},
          sendFails \in BOOLEAN :
          /\ r.kind = "event" => Len(stream.got) < MaxEvents
          /\ LET passes(id) == \/ ~stream.resolved
                               \/ podScopedStreamSend(id, stream.sandbox, containers)
                 \* only an event that reaches the caller's transport can fail
                 h == GetContainerEventsRecv(r, sendFails /\ passes(r.id))
                 out == IF IsOK(h.err) THEN SelectSeq(h.send, passes) ELSE <<>>
             IN  SetStream([stream EXCEPT
                    !.pc = h.next,
                    !.got = IF r.kind = "event"
                                THEN Append(@, [id |-> r.id,
                                                owners |-> Owners(r.id, containers)])
                                ELSE @,
                    !.upEnd = IF r.kind = "event" THEN @ ELSE r.kind,
                    !.delivered = @ \o out,
                    !.err = h.err])
    /\ UNCHANGED <<policy, peer, containers, calls, conn>>

\* the stream is over
StreamComplete ==
    /\ stream.pc = "done"
    /\ SetStream(StreamIdle)
    /\ UNCHANGED <<policy, peer, containers, calls, conn>>

\* the listeners a GetContainerEvents call can arrive at
StreamPolicies == Policies

StreamInit ==
    /\ policy \in StreamPolicies
    /\ peer \in (IF policy.podSandboxFromCallerPID THEN Peers ELSE {PeerPid(101)})
    /\ containers = <<Container("c1", "s1"), Container("c2", "s2")>>
    /\ calls = [c \in Calls |-> Idle]
    /\ stream = StreamIdle
    /\ conn = ReadyConn(peer)

StreamNext ==
    \/ StreamCall
    \/ StreamInterceptNone
    \/ StreamInterceptImageManagement
    \/ StreamInterceptReadOnly
    \/ StreamInterceptPodScoped
    \/ StreamOpen
    \/ StreamRecv
    \/ StreamComplete
    \/ RuntimeCreateContainer
    \/ RuntimeRemoveContainer

StreamSpec == StreamInit /\ [][StreamNext]_vars

------------------------------------------------------------------------------
(* podScopedPolicy.UnaryInterceptor as a function of its inputs *)

\* what the caller and the upstream see of one call
Outcome(admitted, fwd, resp, err) ==
    [admitted |-> admitted, fwd |-> fwd, resp |-> resp, err |-> err]

\* the handler invoked by the interceptor: what it forwards and what it returns
invokeHandler(method, req, cs, upFails, honoursPod) ==
    LET h == Handler(method)
        u == Upstream(method, req, cs, honoursPod)
    IN  IF ~h.forward THEN Outcome(TRUE, <<>>, NoResponse, h.err)
        ELSE IF upFails
            THEN Outcome(TRUE, <<req>>, NoResponse,
                         Wrap("failed to proxy call", UpstreamUnavailable))
        ELSE IF ~IsOK(u.err)
            THEN Outcome(TRUE, <<req>>, NoResponse, Wrap("failed to proxy call", u.err))
        ELSE Outcome(TRUE, <<req>>, u.resp, OK)

\* podScopedPolicy.UnaryInterceptor from the admission a on: verifyRequest,
\* the handler and the response filter; n holds the upstream's choices
podScopedAfterAdmission(a, method, req, cs, n) ==
    IF a.next = "done" THEN Outcome(FALSE, <<>>, NoResponse, a.err)
    ELSE IF a.next = "handler"
        THEN invokeHandler(method, req, cs, n.upFails, n.honoursPod)
    ELSE LET v == verifyRequest(method, req, a.id, cs, n.verifyFails)
             o == invokeHandler(method, v.req, cs, n.upFails, n.honoursPod)
         IN  IF ~IsOK(v.err) THEN Outcome(FALSE, <<>>, NoResponse, v.err)
             ELSE IF ~IsOK(o.err) THEN o
             ELSE [o EXCEPT !.resp = filterResponse(o.resp, a.id)]

UpstreamChoices ==
    [verifyFails : BOOLEAN, upFails : BOOLEAN, honoursPod : BOOLEAN]

\* the container id the cgroup file of pid names: its first run of 64
\* hexadecimal characters in file order, if the file can be read and has one
CgroupContainerId(pid) ==
    LET file == procCgroup(pid)
        runs == {<<i, j>> \in (DOMAIN file.lines) \X (1..3) :
                    j \in DOMAIN file.lines[i] /\ file.lines[i][j].hex64}
        first == CHOOSE r \in runs :
                    \A q \in runs : r[1] < q[1] \/ (r[1] = q[1] /\ r[2] <= q[2])
    IN  IF file.readable /\ runs # {}
            THEN <<file.lines[first[1]][first[2]].text>>
        ELSE <<>>

\* the sandboxes S' of which the claim speaks: the cgroup file of the peer
\* names container C and the runtime reported C as one container of S'
ResolvedSandboxes(p, cs, lookupFailed) ==
    {s \in Sandboxes :
        /\ ~lookupFailed
        /\ CgroupContainerId(p.pid) # <<>>
        /\ LET C == CgroupContainerId(p.pid)[1]
           IN  /\ Owners(C, cs) = {s}
               /\ Cardinality({i \in DOMAIN cs : cs[i].id = C}) = 1}

\* a dynamic policy next to the static policies it is compared with
PairIdle ==
    [pc |-> "idle", method |-> FullMethod("", ""), req |-> EmptyRequest,
     admission |-> [next |-> "done", err |-> OK, id |-> ""], resolved |-> {},
     dynamic |-> <<>>, static |-> [s \in {} |-> OK]]

SetPair(c, pair) == calls' = [calls EXCEPT ![c] = pair]

\* the same request arrives at the dynamic and at the static listener
PairReceive(c) ==
    /\ calls[c].pc = "idle"
    /\ \E method \in Methods : \E req \in Requests(method) :
          SetPair(c, [PairIdle EXCEPT !.pc = "resolve", !.method = method, !.req = req])
    /\ UNCHANGED <<policy, peer, containers, stream, conn>>

\* the dynamic interceptor up to the resolution of the sandbox; resolved holds
\* the sandbox the runtime reports for the peer's container at that moment
PairResolve(c) ==
    /\ calls[c].pc = "resolve"
    /\ \E upFails \in BOOLEAN :
          SetPair(c, [calls[c] EXCEPT
                !.pc = "verify",
                !.admission = podScopedAdmission(calls[c].method, policy, peer,
                                                 containers, upFails),
                !.resolved = ResolvedSandboxes(peer, containers, upFails)])
    /\ UNCHANGED <<policy, peer, containers, stream, conn>>

\* the rest of the dynamic interceptor, and the interceptor of the static
\* policy of the resolved sandbox, against the same runtime with the same choices
PairVerify(c) ==
    /\ calls[c].pc = "verify"
    /\ \E n \in UpstreamChoices :
          LET pair == calls[c]
              static(s) ==
                  podScopedAfterAdmission(
                      podScopedAdmission(pair.method, NewPodScopedPolicy(s, FALSE), peer,
                                         containers, FALSE),
                      pair.method, pair.req, containers, n)
          IN  SetPair(c, [pair EXCEPT
                !.pc = "done",
                !.dynamic = <<podScopedAfterAdmission(pair.admission, pair.method,
                                                      pair.req, containers, n)>>,
                !.static = [s \in pair.resolved |-> static(s)]])
    /\ UNCHANGED <<policy, peer, containers, stream, conn>>

PairComplete(c) ==
    /\ calls[c].pc = "done"
    /\ SetPair(c, PairIdle)
    /\ UNCHANGED <<policy, peer, containers, stream, conn>>

\* dynamic policies, with and without a statically configured sandbox
DynamicPolicies == {NewPodScopedPolicy(s, TRUE) : s \in Sandboxes \cup {""}}

EquivInit ==
    /\ policy \in DynamicPolicies
    /\ peer \in {PeerPid(p) : p \in Pids}
    /\ containers = <<Container("c1", "s1"), Container("c2", "s2")>>
    /\ calls = [c \in Calls |-> PairIdle]
    /\ stream = StreamIdle
    /\ conn = ReadyConn(peer)

EquivNext ==
    \/ \E c \in DOMAIN calls : PairReceive(c)
    \/ \E c \in DOMAIN calls : PairResolve(c)
    \/ \E c \in DOMAIN calls : PairVerify(c)
    \/ \E c \in DOMAIN calls : PairComplete(c)
    \/ RuntimeCreateContainer
    \/ RuntimeRemoveContainer

EquivSpec == EquivInit /\ [][EquivNext]_vars

------------------------------------------------------------------------------
(* A connection from accept to its calls, under dynamic PodScoped *)

\* gRPC runs the handshake once on the accepted socket; a failed handshake
\* closes the connection
ConnHandshake ==
    /\ conn.state = "accepted"
    /\ \E sysFails \in BOOLEAN :
          LET h == ServerHandshake(conn, sysFails)
          IN  IF IsOK(h.err)
                 THEN /\ peer' = h.authInfo
                      /\ conn' = [conn EXCEPT !.state = "ready",
                                              !.handshakePid = conn.peerPid]
              ELSE /\ peer' = peer
                   /\ conn' = [conn EXCEPT !.state = "closed"]
    /\ UNCHANGED <<policy, containers, calls, stream>>

\* the process at the far end is replaced: it exits and its pid is recycled,
\* or it passes the socket to another process
ConnPeerChanges ==
    /\ conn.state = "ready"
    /\ conn.unix
    /\ \E pid \in Pids \ {conn.peerPid} : conn' = [conn EXCEPT !.peerPid = pid]
    /\ UNCHANGED <<policy, peer, containers, calls, stream>>

ConnInit ==
    /\ policy = NewPodScopedPolicy("", TRUE)
    /\ peer = NoPeer
    /\ containers = <<Container("c1", "s1"), Container("c2", "s2")>>
    /\ calls = [c \in Calls |-> Idle]
    /\ stream = StreamIdle
    /\ conn \in {Conn("accepted", unix, pid, 0) : unix \in BOOLEAN, pid \in Pids}

ConnNext ==
    \/ ConnHandshake
    \/ ConnPeerChanges
    \/ \E c \in DOMAIN calls : Receive(c)
    \/ \E c \in DOMAIN calls : InterceptPodScoped(c)
    \/ \E c \in DOMAIN calls : VerifyPodScoped(c)
    \/ \E c \in DOMAIN calls : Handle(c)
    \/ \E c \in DOMAIN calls : Respond(c)
    \/ \E c \in DOMAIN calls : Complete(c)

ConnSpec == ConnInit /\ [][ConnNext]_vars

------------------------------------------------------------------------------
(* The sandbox resolver against any container list of the runtime *)

\* the lists Server.SetContainers can give the runtime, repeated ids included
ContainerLists ==
    UNION {[1..n -> {Container(id, pod) : id \in {"c1", "c2"}, pod \in Sandboxes}] :
             n \in 0..MaxContainers}

ResolverInit ==
    /\ policy = NewPodScopedPolicy("", TRUE)
    /\ peer \in {PeerPid(p) : p \in Pids}
    /\ containers \in ContainerLists
    /\ calls = [c \in Calls |-> PairIdle]
    /\ stream = StreamIdle
    /\ conn = ReadyConn(peer)

ResolverNext ==
    \/ \E c \in DOMAIN calls : PairReceive(c)
    \/ \E c \in DOMAIN calls : PairResolve(c)
    \/ \E c \in DOMAIN calls : PairVerify(c)
    \/ \E c \in DOMAIN calls : PairComplete(c)

ResolverSpec == ResolverInit /\ [][ResolverNext]_vars

------------------------------------------------------------------------------
(* Two calls in flight on one listener *)

ConcCalls == {"a", "b"}

\* one method of each kind of verification, and the methods no case verifies
ConcMethods ==
    {FullMethod(RuntimeService, n) :
        n \in {"Version", "ListContainers", "ListPodSandboxStats", "StopPodSandbox",
               "StartContainer", "RunPodSandbox"}}
    \cup {FullMethod(ImageService, "PullImage")}

\* a caller sends a unary request while other calls may be in flight
ConcReceive(c) ==
    /\ conn.state = "ready"
    /\ calls[c].pc = "idle"
    /\ \E method \in ConcMethods : \E req \in Requests(method) :
          Set(c, [Idle EXCEPT !.pc = "intercept", !.method = method,
                              !.orig = req, !.req = req])
    /\ UNCHANGED <<policy, peer, containers, stream, conn>>

\* a policy's unary interceptor and the handler behind it as one function of
\* the call's own inputs and the upstream's answers to it
unaryOutcome(pol, p, method, req, cs, resolveFails, n) ==
    LET admitted == invokeHandler(method, req, cs, n.upFails, n.honoursPod)
        readOnly == readOnlyPolicyAdmission(method)
        imageManagement == imageManagementPolicyAdmission(method)
    IN  IF pol.kind = "none" THEN admitted
        ELSE IF pol.kind = "readonly"
            THEN IF IsOK(readOnly) THEN admitted
                 ELSE Outcome(FALSE, <<>>, NoResponse, readOnly)
        ELSE IF pol.kind = "imageManagement"
            THEN IF IsOK(imageManagement) THEN admitted
                 ELSE Outcome(FALSE, <<>>, NoResponse, imageManagement)
        ELSE podScopedAfterAdmission(
                podScopedAdmission(method, pol, p, cs, resolveFails), method, req, cs, n)

ConcInit ==
    /\ policy \in Policies
    /\ peer = PeerPid(101)
    /\ containers = <<Container("c1", "s1"), Container("c2", "s2")>>
    /\ calls = [c \in ConcCalls |-> Idle]
    /\ stream = StreamIdle
    /\ conn = ReadyConn(peer)

ConcNext ==
    \/ \E c \in DOMAIN calls : ConcReceive(c)
    \/ \E c \in DOMAIN calls : InterceptNone(c)
    \/ \E c \in DOMAIN calls : InterceptReadOnly(c)
    \/ \E c \in DOMAIN calls : InterceptImageManagement(c)
    \/ \E c \in DOMAIN calls : InterceptPodScoped(c)
    \/ \E c \in DOMAIN calls : VerifyPodScoped(c)
    \/ \E c \in DOMAIN calls : Handle(c)
    \/ \E c \in DOMAIN calls : Respond(c)
    \/ \E c \in DOMAIN calls : Complete(c)

ConcSpec == ConcInit /\ [][ConcNext]_vars

------------------------------------------------------------------------------
(* Properties *)

RunPodSandboxMethod == FullMethod(RuntimeService, "RunPodSandbox")
Forwarded(call) == Len(call.fwd) > 0
\* the interceptor rejected the call with permission-denied, naming the policy
Denied(call) ==
    /\ call.pc = "done"
    /\ call.err.code = "PermissionDenied"
    /\ Contains(call.err, ErrMethodNotAllowed)
    /\ call.fwd = <<>>
\* forward was invoked exactly once, with the request as the caller sent it
ForwardedUnmodified(call) ==
    /\ Len(call.fwd) = 1
    /\ call.fwd[1].method = call.method
    /\ call.fwd[1].req = call.orig

C4_Allowlist ==
    {FullMethod(RuntimeService, "Version"), FullMethod(RuntimeService, "Status"),
     FullMethod(RuntimeService, "ListContainers"),
     FullMethod(RuntimeService, "ContainerStatus"),
     FullMethod(RuntimeService, "ListPodSandbox"),
     FullMethod(RuntimeService, "PodSandboxStatus"),
     FullMethod(RuntimeService, "ContainerStats"),
     FullMethod(RuntimeService, "ListContainerStats"),
     FullMethod(RuntimeService, "PodSandboxStats"),
     FullMethod(RuntimeService, "ListPodSandboxStats"),
     FullMethod(ImageService, "ListImages"), FullMethod(ImageService, "ImageStatus"),
     FullMethod(ImageService, "ImageFsInfo")}

\* C4: under ReadOnly a finished call was forwarded exactly once and unmodified
\* if its method is on the allowlist, and otherwise was rejected with
\* permission-denied naming the policy and the method, without forward.
C4_ReadOnlyAllowlist ==
    \A c \in DOMAIN calls :
        (policy.kind = "readonly" /\ calls[c].pc = "done") =>
            IF calls[c].method \in C4_Allowlist
                THEN ForwardedUnmodified(calls[c])
            ELSE Denied(calls[c]) /\ Contains(calls[c].err, calls[c].method.name)

\* C4 witness: a write method was rejected under ReadOnly.
C4_Witness ==
    \E c \in DOMAIN calls :
        /\ policy.kind = "readonly"
        /\ calls[c].pc = "done"
        /\ calls[c].method = FullMethod(ImageService, "PullImage")
        /\ Denied(calls[c])

Scoped(call) == policy.kind = "podScoped" /\ call.resolved

\* C2: every RuntimeService request PodScoped forwards names sandbox S only:
\* its pod sandbox id is S, its filter's sandbox field is S, and its container
\* id is the id of a container of S and of no other sandbox.
C2_ForwardedRequestsNameOnlyS ==
    \A c \in DOMAIN calls :
        Scoped(calls[c]) =>
            \A i \in DOMAIN calls[c].fwd :
                LET f == calls[c].fwd[i]
                    name == f.method.name
                IN  /\ name \in SandboxIdMethodNames => f.req.podSandboxId = calls[c].sandbox
                    /\ name \in ContainerIdMethodNames => f.owner = {calls[c].sandbox}
                    /\ name \in {"ListContainers", "ListContainerStats"} =>
                          f.req.filter.podSandboxId = calls[c].sandbox
                    /\ name = "ListPodSandboxStats" => f.req.filter.id = calls[c].sandbox

\* C3: every element of a response PodScoped returns to the caller belongs to
\* the call's sandbox S, for every response type.
C3_ResponseElementsBelongToS ==
    \A c \in DOMAIN calls :
        (Scoped(calls[c]) /\ calls[c].pc = "done" /\ IsOK(calls[c].err)) =>
            \A i \in DOMAIN calls[c].resp.items :
                calls[c].resp.items[i].pod = calls[c].sandbox

\* C6: under PodScoped every ImageService call is rejected with
\* permission-denied naming the policy and is never forwarded.
C6_PodScopedDeniesImageService ==
    \A c \in DOMAIN calls :
        (policy.kind = "podScoped" /\ calls[c].method.service = ImageService) =>
            /\ calls[c].fwd = <<>>
            /\ calls[c].pc = "done" => Denied(calls[c])

C7_Methods ==
    {"CreateContainer", "StopPodSandbox", "RemovePodSandbox", "PodSandboxStatus",
     "UpdatePodSandboxResources"}

\* C7: under PodScoped with resolved sandbox S, a finished CreateContainer,
\* StopPodSandbox, RemovePodSandbox, PodSandboxStatus or
\* UpdatePodSandboxResources call was forwarded (once, unmodified) if and only
\* if its PodSandboxId equals S, and otherwise was rejected with
\* permission-denied without forward.
C7_SandboxIdMustMatch ==
    \A c \in DOMAIN calls :
        (Scoped(calls[c]) /\ calls[c].method.name \in C7_Methods) =>
            /\ Forwarded(calls[c]) => calls[c].orig.podSandboxId = calls[c].sandbox
            /\ calls[c].pc = "done" =>
                  IF calls[c].orig.podSandboxId = calls[c].sandbox
                      THEN ForwardedUnmodified(calls[c])
                  ELSE Denied(calls[c])

\* C7 witness: under dynamic PodScoped a CreateContainer for the resolved
\* sandbox was forwarded.
C7_Witness ==
    \E c \in DOMAIN calls :
        /\ Scoped(calls[c])
        /\ policy.podSandboxFromCallerPID
        /\ calls[c].method.name = "CreateContainer"
        /\ calls[c].pc = "done"
        /\ calls[c].orig.podSandboxId = "s1"
        /\ calls[c].sandbox = "s1"
        /\ ForwardedUnmodified(calls[c])

C8_Methods ==
    {"StartContainer", "StopContainer", "RemoveContainer", "ContainerStatus",
     "ExecSync", "Attach", "ContainerStats", "UpdateContainerResources"}

\* C8: under PodScoped with resolved sandbox S, a container-id request is
\* forwarded only if the runtime reported a container with the request's
\* ContainerId whose sandbox is S; if the runtime reported the container in
\* another sandbox the call is rejected with permission-denied, not forwarded.
C8_ContainerMustBelongToS ==
    \A c \in DOMAIN calls :
        (Scoped(calls[c]) /\ calls[c].method.name \in C8_Methods) =>
            /\ Forwarded(calls[c]) =>
                  /\ calls[c].lookup.done
                  /\ calls[c].lookup.n >= 1
                  /\ calls[c].lookup.id = calls[c].orig.containerId
                  /\ calls[c].lookup.pod = calls[c].sandbox
            /\ (/\ calls[c].pc = "done"
                /\ calls[c].lookup.done
                /\ calls[c].lookup.n = 1
                /\ calls[c].lookup.id = calls[c].orig.containerId
                /\ calls[c].lookup.pod # calls[c].sandbox) => Denied(calls[c])

\* C9: under PodScoped with resolved sandbox S, a finished PortForward call was
\* forwarded if and only if its PodSandboxId equals S, whatever containers the
\* runtime knows, and otherwise was rejected with permission-denied.
C9_PortForwardEquality ==
    \A c \in DOMAIN calls :
        (Scoped(calls[c]) /\ calls[c].method.name = "PortForward") =>
            /\ Forwarded(calls[c]) => calls[c].orig.podSandboxId = calls[c].sandbox
            /\ calls[c].pc = "done" =>
                  IF calls[c].orig.podSandboxId = calls[c].sandbox
                      THEN ForwardedUnmodified(calls[c])
                  ELSE Denied(calls[c])

\* the sandbox field of a list request's filter
SandboxField(name, req) ==
    IF name = "ListPodSandboxStats" THEN req.filter.id ELSE req.filter.podSandboxId

\* C10: under PodScoped with resolved sandbox S, a list request whose sandbox
\* field is absent or unset is forwarded with the field set to S, one whose
\* field is set and differs from S is rejected with permission-denied and not
\* forwarded, and every forwarded list request has the field equal to S.
C10_ListFilterTightened ==
    \A c \in DOMAIN calls :
        (Scoped(calls[c]) /\ calls[c].method.name \in ListMethodNames) =>
            LET name == calls[c].method.name
                asked == SandboxField(name, calls[c].orig)
            IN  /\ \A i \in DOMAIN calls[c].fwd :
                      /\ calls[c].fwd[i].req.filter.present
                      /\ SandboxField(name, calls[c].fwd[i].req) = calls[c].sandbox
                /\ Forwarded(calls[c]) => asked \in {"", calls[c].sandbox}
                /\ calls[c].pc = "done" =>
                      IF asked \in {"", calls[c].sandbox}
                          THEN Len(calls[c].fwd) = 1
                      ELSE Denied(calls[c])

\* C10 witness: a ListPodSandboxStats request with a filter whose id is unset
\* was forwarded with the id set to S.
C10_Witness ==
    \E c \in DOMAIN calls :
        /\ Scoped(calls[c])
        /\ calls[c].method.name = "ListPodSandboxStats"
        /\ calls[c].pc = "done"
        /\ calls[c].orig.filter.present
        /\ calls[c].orig.filter.id = ""
        /\ calls[c].sandbox = "s1"
        /\ Len(calls[c].fwd) = 1
        /\ calls[c].fwd[1].req.filter.id = "s1"

\* out is inp restricted to the elements of sandbox S, in inp's order
KeptInOrder(out, inp, S) ==
    LET keep == {i \in DOMAIN inp : inp[i].pod = S}
        rank(i) == Cardinality({j \in keep : j <= i})
    IN  /\ Len(out) = Cardinality(keep)
        /\ \A i \in keep : out[rank(i)] = inp[i]

\* C11: under PodScoped with resolved sandbox S, every container of a
\* ListContainers response returned to the caller has pod sandbox id S, whether
\* or not the runtime honoured the filter, and the response is exactly the
\* runtime's containers of S in the runtime's order.
C11_ListContainersResponseFiltered ==
    \A c \in DOMAIN calls :
        (/\ Scoped(calls[c])
         /\ calls[c].method.name = "ListContainers"
         /\ calls[c].pc = "done"
         /\ IsOK(calls[c].err)) =>
            /\ \A i \in DOMAIN calls[c].resp.items :
                  calls[c].resp.items[i].pod = calls[c].sandbox
            /\ KeptInOrder(calls[c].resp.items, calls[c].hresp.items, calls[c].sandbox)

\* C11 witness: the runtime ignored the filter and returned a container of
\* another sandbox, which the response to the caller no longer holds.
C11_Witness ==
    \E c \in DOMAIN calls :
        /\ Scoped(calls[c])
        /\ calls[c].method.name = "ListContainers"
        /\ calls[c].pc = "done"
        /\ IsOK(calls[c].err)
        /\ calls[c].sandbox = "s1"
        /\ Len(calls[c].hresp.items) = 2
        /\ Len(calls[c].resp.items) = 1
        /\ calls[c].resp.items[1].pod = "s1"

\* C12: under PodScoped with resolved sandbox S, every element of a
\* ListPodSandboxStats response returned to the caller has attributes.id S,
\* also when the runtime ignores the tightened filter.
C12_ListPodSandboxStatsResponseFiltered ==
    \A c \in DOMAIN calls :
        (/\ Scoped(calls[c])
         /\ calls[c].method.name = "ListPodSandboxStats"
         /\ calls[c].pc = "done"
         /\ IsOK(calls[c].err)) =>
            \A i \in DOMAIN calls[c].resp.items :
                calls[c].resp.items[i].id = calls[c].sandbox

\* C13: under PodScoped with resolved sandbox S, a ListContainerStats response
\* returned to the caller holds no entry of a container of another sandbox,
\* also when the runtime ignores the tightened filter.
C13_ListContainerStatsResponseFiltered ==
    \A c \in DOMAIN calls :
        (/\ Scoped(calls[c])
         /\ calls[c].method.name = "ListContainerStats"
         /\ calls[c].pc = "done"
         /\ IsOK(calls[c].err)) =>
            ~\E i \in DOMAIN calls[c].resp.items :
                calls[c].resp.items[i].pod # calls[c].sandbox

\* how often a step occurs in a call's history
Count(steps, name) == Cardinality({i \in DOMAIN steps : steps[i] = name})

\* C15: for every policy and every unary call the steps are ordered and the
\* handler is invoked at most once: a rejected call never invokes it, an
\* admitted call invokes it exactly once and only right after the policy
\* admitted the (verified, rewritten) request, the response is rewritten after
\* the handler returned and before the call returns, and the upstream is
\* invoked at most once (no retry).
C15_StepsOrderedForwardOnce ==
    \A c \in DOMAIN calls :
        LET st == calls[c].steps
        IN  /\ Count(st, "forward") <= 1
            /\ Len(calls[c].fwd) <= 1
            /\ calls[c].fwd # <<>> => Count(st, "forward") = 1
            /\ Count(st, "reject") > 0 =>
                  /\ Count(st, "forward") = 0
                  /\ calls[c].fwd = <<>>
            /\ \A i \in DOMAIN st :
                  /\ st[i] = "forward" =>
                        /\ policy.kind # "none" => (i > 1 /\ st[i - 1] = "admit")
                        /\ calls[c].resolved => SubSeq(st, 1, i) = <<"resolve", "admit", "forward">>
                        /\ \A j \in 1..(i - 1) : st[j] \notin {"reject", "rewrite", "return"}
                  /\ st[i] = "rewrite" =>
                        /\ i > 1 /\ st[i - 1] = "forward"
                        /\ i < Len(st) /\ st[i + 1] = "return"
            /\ calls[c].pc = "done" =>
                  /\ st # <<>> /\ st[Len(st)] \in {"reject", "return"}
                  /\ Count(st, "admit") > 0 => Count(st, "forward") = 1
                  /\ Count(st, "admit") = 0 =>
                        (policy.kind = "none" \/ st[Len(st)] = "reject")

\* C15 witness: a PodScoped ListContainers call whose request was rewritten
\* before the handler ran and whose response was rewritten before it returned.
C15_Witness ==
    \E c \in DOMAIN calls :
        /\ Scoped(calls[c])
        /\ calls[c].pc = "done"
        /\ calls[c].method.name = "ListContainers"
        /\ calls[c].steps = <<"resolve", "admit", "forward", "rewrite", "return">>
        /\ calls[c].req # calls[c].orig
        /\ calls[c].resp # calls[c].hresp
        /\ Len(calls[c].fwd) = 1

\* the message ends with the text
EndsWith(msg, text) ==
    /\ Len(msg) >= Len(text)
    /\ SubSeq(msg, Len(msg) - Len(text) + 1, Len(msg)) = text

\* C16: when the upstream answers a forwarded call with an error, the caller
\* gets an error with the same status code whose message is the upstream's
\* message behind a prefix, and no response, under every policy and for every
\* forwarded method.
C16_UpstreamErrorSurfaced ==
    \A c \in DOMAIN calls :
        (calls[c].pc = "done" /\ ~IsOK(calls[c].uerr)) =>
            /\ ~IsOK(calls[c].err)
            /\ calls[c].err.code = calls[c].uerr.code
            /\ EndsWith(calls[c].err.msg, calls[c].uerr.msg)
            /\ calls[c].resp = NoResponse

\* C16 witness: under PodScoped an admitted ContainerStatus call failed
\* upstream with Unavailable and the caller got Unavailable.
C16_Witness ==
    \E c \in DOMAIN calls :
        /\ Scoped(calls[c])
        /\ calls[c].pc = "done"
        /\ calls[c].method.name = "ContainerStatus"
        /\ calls[c].uerr = UpstreamUnavailable
        /\ calls[c].err.code = "Unavailable"
        /\ Len(calls[c].fwd) = 1

\* a connection without a peer identity
NoIdentity(p) == p.kind \in {"nopeer", "noauth", "nilucred"}

C19_RunPodSandboxPermissionDenied ==
    \A c \in DOMAIN calls :
        (calls[c].method = RunPodSandboxMethod /\ calls[c].pc = "done") =>
            calls[c].err.code = "PermissionDenied"

------------------------------------------------------------------------------
(* GetContainerEvents under a policy *)

\* the upstream events whose container belonged to sandbox S when received
EventsOf(got, S) ==
    LET inS(e) == e.owners = {S}
        picked == SelectSeq(got, inS)
    IN  [i \in 1..Len(picked) |-> picked[i].id]

\* C14: under PodScoped with resolved sandbox S the caller of GetContainerEvents
\* receives exactly the upstream events whose container belongs to S, in
\* upstream order, and the stream ends without error exactly after the
\* upstream's end-of-stream
C14_EventsFilteredToSandbox ==
    (policy.kind = "podScoped" /\ stream.resolved) =>
        /\ stream.pc = "recv" =>
              stream.delivered = EventsOf(stream.got, stream.sandbox)
        /\ (stream.pc = "done" /\ IsOK(stream.err) /\ stream.opened > 0) =>
              /\ stream.upEnd = "eof"
              /\ stream.delivered = EventsOf(stream.got, stream.sandbox)
        /\ \A i \in DOMAIN stream.delivered :
              \E j \in DOMAIN stream.got :
                  /\ stream.got[j].id = stream.delivered[i]
                  /\ stream.got[j].owners = {stream.sandbox}

C14_Witness ==
    /\ policy.kind = "podScoped"
    /\ stream.resolved
    /\ stream.sandbox = "s1"
    /\ stream.pc = "done"
    /\ stream.upEnd = "eof"
    /\ IsOK(stream.err)
    /\ Len(stream.got) = 2
    /\ stream.got[1].owners = {"s2"}
    /\ stream.got[2].owners = {"s1"}
    /\ stream.delivered = <<stream.got[2].id>>

\* C20: under ImageManagement GetContainerEvents is denied: the stream ends
\* with PermissionDenied, no event is delivered and no upstream stream is opened
C20_ImageManagementDeniesEvents ==
    policy.kind = "imageManagement" =>
        /\ stream.opened = 0
        /\ stream.delivered = <<>>
        /\ stream.pc \in {"idle", "intercept", "done"}
        /\ stream.pc = "done" => stream.err.code = "PermissionDenied"

C20_Witness ==
    /\ policy.kind = "imageManagement"
    /\ stream.pc = "done"
    /\ stream.err.code = "PermissionDenied"
    /\ stream.opened = 0

------------------------------------------------------------------------------
(* Dynamic and static PodScoped *)

\* C18: when the peer's cgroup file names container C and the runtime reports
\* C in sandbox S', the dynamic policy's decision, forwarded request and
\* returned response are those of the static policy of S', whatever sandbox
\* the dynamic policy was configured with
C18_DynamicEqualsStaticAfterResolution ==
    \A c \in DOMAIN calls :
        calls[c].pc = "done" =>
            \A s \in calls[c].resolved :
                calls[c].dynamic = <<calls[c].static[s]>>

C18_Witness ==
    \E c \in DOMAIN calls :
        /\ calls[c].pc = "done"
        /\ policy.podSandboxID = "s2"
        /\ calls[c].resolved = {"s1"}
        /\ calls[c].method.name = "ListContainers"
        /\ calls[c].dynamic[1].admitted
        /\ Len(calls[c].dynamic[1].fwd) = 1
        /\ calls[c].dynamic[1].fwd[1].filter.podSandboxId = "s1"
        /\ Len(calls[c].dynamic[1].resp.items) = 1

------------------------------------------------------------------------------
(* The peer identity of a connection *)

\* C21: every pid handed to the sandbox resolver is the pid captured at the
\* connection's handshake, whatever the call's payload and whatever process
\* holds the far end of the socket now; a dynamic call that resolved a sandbox
\* was resolved from that pid
C21_ResolverPidIsHandshakePid ==
    \A c \in DOMAIN calls :
        /\ calls[c].pid # <<>> =>
              /\ conn.state = "ready"
              /\ calls[c].pid = <<conn.handshakePid>>
        /\ (policy.podSandboxFromCallerPID /\ calls[c].resolved) =>
              calls[c].pid = <<conn.handshakePid>>

C21_Witness ==
    \E c \in DOMAIN calls :
        /\ calls[c].pc = "done"
        /\ calls[c].resolved
        /\ calls[c].orig.containerId = "c2"
        /\ calls[c].pid = <<101>>
        /\ conn.handshakePid = 101
        /\ conn.peerPid = 104

------------------------------------------------------------------------------
(* Requests verifyRequest has no case for *)

\* C22: under PodScoped with resolved sandbox S, an Exec request naming a
\* container of another sandbox is never forwarded and ends with
\* permission-denied
C22_ExecMustBelongToS ==
    \A c \in DOMAIN calls :
        (Scoped(calls[c]) /\ calls[c].method.name = "Exec") =>
            /\ \A i \in DOMAIN calls[c].fwd :
                  calls[c].fwd[i].owner \subseteq {calls[c].sandbox}
            /\ (/\ calls[c].pc = "done"
                /\ calls[c].lookup.done
                /\ calls[c].lookup.n = 1
                /\ calls[c].lookup.pod # calls[c].sandbox) => Denied(calls[c])

\* C23: under PodScoped with resolved sandbox S, a PodSandboxStats request
\* whose PodSandboxId differs from S is never forwarded and ends with
\* permission-denied
C23_PodSandboxStatsMustMatch ==
    \A c \in DOMAIN calls :
        (/\ Scoped(calls[c])
         /\ calls[c].method.name = "PodSandboxStats"
         /\ calls[c].orig.podSandboxId # calls[c].sandbox) =>
            /\ ~Forwarded(calls[c])
            /\ calls[c].pc = "done" => Denied(calls[c])

------------------------------------------------------------------------------
(* Empty identifiers *)

C24_Methods == C7_Methods \cup {"PortForward"}

\* C24: under PodScoped, whatever its configuration, a request with an empty
\* PodSandboxId on a method that must identify exactly one sandbox is never
\* forwarded and ends with an error
C24_EmptySandboxIdRejected ==
    \A c \in DOMAIN calls :
        (/\ policy.kind = "podScoped"
         /\ calls[c].method.service = RuntimeService
         /\ calls[c].method.name \in C24_Methods
         /\ calls[c].orig.podSandboxId = "") =>
            /\ ~Forwarded(calls[c])
            /\ calls[c].pc = "done" => ~IsOK(calls[c].err)

------------------------------------------------------------------------------
(* The sandbox resolver *)

\* C25: the resolver takes the first 64-hex run of the pid's cgroup file as
\* the container id and returns the sandbox of the single container the
\* runtime lists for it; when the file is unreadable or names no container,
\* the lookup fails, or the runtime lists zero or several containers, the call
\* fails with internal and is not forwarded
C25_ResolverResult ==
    \A c \in DOMAIN calls :
        (calls[c].pc \in {"verify", "done"} /\ calls[c].method.service = RuntimeService) =>
            LET a == calls[c].admission
                C == CgroupContainerId(peer.pid)
                listed == IF C = <<>> THEN <<>>
                          ELSE SelectSeq(containers, LAMBDA k : k.id = C[1])
            IN  /\ a.next \in {"verify", "done"}
                /\ a.next = "verify" =>
                      /\ Len(listed) = 1
                      /\ a.id = listed[1].pod
                      /\ calls[c].resolved = {a.id}
                /\ (Len(listed) # 1 \/ calls[c].resolved = {}) =>
                      /\ a.next = "done"
                      /\ a.err.code = "Internal"
                /\ (a.next = "done" /\ calls[c].pc = "done") =>
                      /\ calls[c].dynamic[1].fwd = <<>>
                      /\ calls[c].dynamic[1].err.code = "Internal"

C25_Witness ==
    \E c \in DOMAIN calls :
        /\ calls[c].pc = "done"
        /\ peer.pid = 104
        /\ calls[c].method.name = "StartContainer"
        /\ calls[c].admission.next = "verify"
        /\ calls[c].admission.id = "s2"
        /\ containers = <<Container("c1", "s1"), Container("c2", "s2")>>
        /\ Len(calls[c].dynamic[1].fwd) = 1

------------------------------------------------------------------------------
(* Idempotence of PodScoped's rewrites *)

\* C26: for a fixed S, rewriting an already rewritten response gives the same
\* response, and verifying an already tightened list request admits it and
\* leaves it unchanged
C26_RewritesIdempotent ==
    \A c \in DOMAIN calls :
        Scoped(calls[c]) =>
            /\ (calls[c].pc = "done" /\ IsOK(calls[c].err)) =>
                  filterResponse(calls[c].resp, calls[c].sandbox) = calls[c].resp
            /\ (/\ calls[c].method.name \in ListMethodNames
                /\ calls[c].pc \in {"handler", "respond"}) =>
                  \A upFails \in BOOLEAN :
                      LET again == verifyRequest(calls[c].method, calls[c].req,
                                                 calls[c].sandbox, containers, upFails)
                      IN  /\ IsOK(again.err)
                          /\ again.req = calls[c].req

C26_Witness ==
    \E c \in DOMAIN calls :
        /\ Scoped(calls[c])
        /\ calls[c].method.name = "ListContainers"
        /\ calls[c].pc = "done"
        /\ IsOK(calls[c].err)
        /\ ~calls[c].orig.filter.present
        /\ calls[c].req.filter.podSandboxId = "s1"
        /\ Len(calls[c].hresp.items) = 2
        /\ Len(calls[c].resp.items) = 1

------------------------------------------------------------------------------
(* GetContainerEvents without filtering *)

EventIds(got) == [i \in DOMAIN got |-> got[i].id]

IsPrefix(a, b) == Len(a) <= Len(b) /\ \A i \in DOMAIN a : a[i] = b[i]

\* C27: an admitted GetContainerEvents call that no policy filters (no
\* policy, ReadOnly) delivers exactly the upstream's events, in order, none
\* lost or repeated; it ends without error exactly when the upstream signalled
\* end-of-stream, and with an error after the events already delivered when
\* the upstream stream failed
C27_EventsPassedThrough ==
    (policy.kind \in {"none", "readonly"} /\ stream.opened > 0) =>
        /\ IsPrefix(stream.delivered, EventIds(stream.got))
        /\ stream.pc = "recv" => stream.delivered = EventIds(stream.got)
        /\ (stream.pc = "done" /\ stream.upEnd = "eof") =>
              /\ IsOK(stream.err)
              /\ stream.delivered = EventIds(stream.got)
        /\ (stream.pc = "done" /\ stream.upEnd = "error") =>
              /\ ~IsOK(stream.err)
              /\ stream.delivered = EventIds(stream.got)
        /\ (stream.pc = "done" /\ IsOK(stream.err)) => stream.upEnd = "eof"

C27_Witness ==
    /\ policy.kind = "readonly"
    /\ stream.pc = "done"
    /\ stream.upEnd = "error"
    /\ stream.err.code = "Unavailable"
    /\ stream.delivered = <<"c2", "c1">>

------------------------------------------------------------------------------
(* Calls in flight together *)

\* the finished call's result is the interceptor's result for its own inputs
OwnOutcome(call) ==
    \E resolveFails \in BOOLEAN, n \in UpstreamChoices :
        LET o == unaryOutcome(policy, peer, call.method, call.orig, containers,
                              resolveFails, n)
        IN  /\ call.err = o.err
            /\ call.resp = o.resp
            /\ [i \in DOMAIN call.fwd |-> call.fwd[i].req] = o.fwd

\* whichever calls are in flight, every finished call carries the result of
\* its own request
C28_FinishedCallsOwnOutcome ==
    \A c \in DOMAIN calls : calls[c].pc = "done" => OwnOutcome(calls[c])

\* a step touches the record of one call only and never the policy value
C28_StepTouchesOneCall ==
    /\ policy' = policy
    /\ \A c, d \in DOMAIN calls :
          (calls'[c] # calls[c] /\ calls'[d] # calls[d]) => c = d

\* C28: under every interleaving of the calls in flight on a listener, each
\* call's decision, forwarded request and returned response are those of its
\* own request, its own resolved sandbox and the upstream's answers to it; no
\* step modifies the policy value or another call's request
C28_CallsDoNotInterfere ==
    [](C28_FinishedCallsOwnOutcome) /\ [][C28_StepTouchesOneCall]_vars

C28_Witness ==
    /\ policy = NewPodScopedPolicy("s1", FALSE)
    /\ calls["a"].pc = "done"
    /\ calls["a"].method.name = "ListContainers"
    /\ calls["a"].req.filter.podSandboxId = "s1"
    /\ Len(calls["a"].resp.items) = 1
    /\ calls["b"].pc = "handler"
    /\ calls["b"].method.name = "ListPodSandboxStats"
    /\ calls["b"].orig.filter.present
    /\ calls["b"].orig.filter.id = ""
    /\ calls["b"].req.filter.id = "s1"

------------------------------------------------------------------------------
(* Membership lookup and forward *)

\* C29: for a container-id request PodScoped admitted, the container the
\* request names belongs to S when the upstream executes the forwarded call,
\* also when the runtime's containers changed after the membership lookup
C29_MemberWhenForwarded ==
    \A c \in DOMAIN calls :
        (Scoped(calls[c]) /\ calls[c].method.name \in C8_Methods) =>
            \A i \in DOMAIN calls[c].fwd :
                calls[c].fwd[i].owner = {calls[c].sandbox}

\* C30: when the membership lookup of a container-id request fails (the
\* upstream call fails, or the runtime lists no container or several), the
\* request is not forwarded and the caller receives permission-denied
C30_LookupFailureDenies ==
    \A c \in DOMAIN calls :
        (/\ Scoped(calls[c])
         /\ calls[c].method.name \in C8_Methods
         /\ calls[c].pc \in {"handler", "respond", "done"}
         /\ (~calls[c].lookup.done \/ calls[c].lookup.n # 1)) => Denied(calls[c])

C30_Witness ==
    \E c \in DOMAIN calls :
        /\ Scoped(calls[c])
        /\ calls[c].method.name = "StopContainer"
        /\ calls[c].orig.containerId = "c1"
        /\ calls[c].pc = "done"
        /\ ~calls[c].lookup.done
        /\ calls[c].err.code = "PermissionDenied"
        /\ Contains(calls[c].err, "upstream unavailable")
        /\ calls[c].fwd = <<>>

====
